---- MODULE Spec2Model ----
(***************************************************************************)
(* Model of the preview / page-view commands of the Wikitext extension:    *)
(*   view.ts    getPreview, getPageView, getView                           *)
(*   wmcore.ts  viewPage (the earlier page viewer)                         *)
(*   bot.ts     login, logout, getBot (appended to mwbot.d.ts)             *)
(* Every `await` of the source is a suspension point: the part of a        *)
(* function between two awaits is one action.  Strings are modelled as     *)
(* sequences of tokens, so that concatenation is \o and String.replace is  *)
(* a search for a token.                                                   *)
(***************************************************************************)
EXTENDS Integers, Sequences, FiniteSets, TLC

\* number of command invocations one behaviour contains
MaxCalls == 2

Calls == 1..MaxCalls

(***************************************************************************)
(* Values                                                                  *)
(***************************************************************************)
\* an optional string: JS `undefined` is [present |-> FALSE, val |-> <<>>]
Absent == [present |-> FALSE, val |-> <<>>]

Some(s) == [present |-> TRUE, val |-> s]

\* JS truthiness of an optional string: undefined and "" are falsy
Truthy(o) == o.present /\ o.val # <<>>

\* `${x}` of an optional string: undefined is rendered as the word undefined
Interp(o) == IF o.present THEN o.val ELSE <<"undefined">>

\* configuration values read through config.get(...)
TransferProtocol == "https://"

ArticlePath == "/wiki/"

PreviewCssStyle == "css"

HostName == "wiki.example"

\* results of getHost(): a host name, or "" for undefined
HostResults == {"", HostName}

\* what vscode.window.activeTextEditor?.document.getText() can yield for the
\* c-th invocation: no editor, an empty document, or the text the document has
\* by then, with or without a PAGE_INFO block in front
SourceTexts(c) ==
    { Absent, Some(<<>>), Some(<<ToString(c)>>),
      Some(<<"<%--[PAGE_INFO]", "x", "[END_PAGE_INFO]--%>", ToString(c)>>) }

\* what showInputBox can yield for the page name
TitleInputs == { Absent, Some(<<>>), Some(<<"a">>) }

(***************************************************************************)
(* view.ts line 30: remove the first PAGE_INFO block of the text           *)
(***************************************************************************)
RECURSIVE IndexOf(_, _, _)
IndexOf(s, tok, i) ==
    IF i > Len(s) THEN 0
    ELSE IF s[i] = tok THEN i
    ELSE IndexOf(s, tok, i + 1)

RemovePageInfo(s) ==
    LET b == IndexOf(s, "<%--[PAGE_INFO]", 1)
        e == IF b = 0 THEN 0 ELSE IndexOf(s, "[END_PAGE_INFO]--%>", b + 1)
    IN  IF b = 0 \/ e = 0 THEN s
        ELSE SubSeq(s, 1, b - 1) \o SubSeq(s, e + 1, Len(s))

\* String.prototype.replace(pattern, by) with a string pattern: first match only
ReplaceFirst(s, tok, by) ==
    LET i == IndexOf(s, tok, 1)
    IN  IF i = 0 THEN s
        ELSE SubSeq(s, 1, i - 1) \o by \o SubSeq(s, i + 1, Len(s))

(***************************************************************************)
(* Documents written to a webview                                          *)
(***************************************************************************)
ShowHtmlInfo(info) ==
    <<"<!DOCTYPE html><html><body><h2>", info, "</h2></body></html>">>

LoadingDoc == ShowHtmlInfo("Loading...")

ErrorDoc == ShowHtmlInfo("Error")

BaseHref(host) == <<TransferProtocol, host, ArticlePath>>

\* view.ts line 134; the closing quote after `/>` is in the source
BaseElem(baseURI) == <<"<base href=\"">> \o baseURI \o <<"\" />", "\"">>

StyleElem == <<"<style>", PreviewCssStyle, "</style>">>

\* a field of the parse payload that wraps its text as {"*": text}:
\* the field may be missing, and when there its "*" member may be missing
NoField == [there |-> FALSE, star |-> Absent]

Field(o) == [there |-> TRUE, star |-> o]

\* field?.["*"]
Star(f) == IF f.there THEN f.star ELSE Absent

\* AssembleHtml with the test of line 140 on the field instead of its text: the
\* rule is appended whenever the payload has a categorieshtml member
AssembleHtmlRuleForField(parse, baseURI) ==
    LET inject   == BaseElem(baseURI) \o StyleElem
        htmlHead == IF Star(parse.headhtml).present
                    THEN ReplaceFirst(Star(parse.headhtml).val, "<head>", <<"<head>">> \o inject)
                    ELSE <<"<!DOCTYPE html><html>", "<head>">> \o inject \o <<"</head>", "<body>">>
        htmlText == IF Truthy(Star(parse.text)) THEN Star(parse.text).val ELSE <<>>
        htmlCategories == IF parse.categorieshtml.there
                          THEN <<"<hr />">> \o Interp(Star(parse.categorieshtml))
                          ELSE <<>>
        htmlEnd  == <<"</body></html>">>
    IN  htmlHead \o htmlText \o htmlCategories \o htmlEnd

\* view.ts lines 134-143: the document built from a parse payload
AssembleHtml(parse, baseURI) ==
    LET inject   == BaseElem(baseURI) \o StyleElem
        htmlHead == IF Star(parse.headhtml).present
                    THEN ReplaceFirst(Star(parse.headhtml).val, "<head>", <<"<head>">> \o inject)
                    ELSE <<"<!DOCTYPE html><html>", "<head>">> \o inject \o <<"</head>", "<body>">>
        htmlText == IF Truthy(Star(parse.text)) THEN Star(parse.text).val ELSE <<>>
        htmlCategories == IF Truthy(Star(parse.categorieshtml))
                          THEN <<"<hr />">> \o Star(parse.categorieshtml).val
                          ELSE <<>>
        htmlEnd  == <<"</body></html>">>
    IN  htmlHead \o htmlText \o htmlCategories \o htmlEnd

\* view.ts line 146
AssembleTitle(viewerTitle, parse) == <<viewerTitle, ": ">> \o Interp(parse.displaytitle)

\* wmcore.ts lines 248-253: the document viewPage builds
ViewPageHtml(parse, getCss) ==
    LET header == IF getCss
                  THEN (IF Truthy(Star(parse.headhtml)) THEN Star(parse.headhtml).val ELSE <<>>)
                  ELSE <<"<!DOCTYPE html><html><body>">>
    IN  header \o Interp(Star(parse.text)) \o <<"</body></html>">>

\* wmcore.ts line 254
ViewPageTitle(parse) == <<"WikitextPreviewer", ": ">> \o Interp(parse.displaytitle)

(***************************************************************************)
(* The wiki: responses to a parse request                                  *)
(***************************************************************************)
EmptyParse ==
    [text |-> NoField, displaytitle |-> Absent,
     headhtml |-> NoField, categorieshtml |-> NoField]

NoApiError == [code |-> Absent, info |-> Absent]

ApiError == [code |-> Some(<<"missingtitle">>), info |-> Some(<<"no such page">>)]

EmptyResponse ==
    [hasError |-> FALSE, error |-> NoApiError, hasParse |-> FALSE, parse |-> EmptyParse]

\* the body the wiki renders for the text or page named src
BodyOf(src) == <<"<p>">> \o src \o <<"</p>">>

PlainParse(src) ==
    [text |-> Field(Some(BodyOf(src))), displaytitle |-> Some(src),
     headhtml |-> NoField, categorieshtml |-> NoField]

RichParse(src) ==
    [text |-> Field(Some(BodyOf(src))), displaytitle |-> Some(src),
     headhtml |-> Field(Some(<<"<!DOCTYPE html><html>", "<head>", "<title/>", "</head>", "<body>">>)),
     categorieshtml |-> Field(Some(<<"<div id=catlinks/>">>))]

\* JSON bodies the wiki can answer with
RawResponses(src) ==
    { [hasError |-> FALSE, error |-> NoApiError, hasParse |-> TRUE, parse |-> PlainParse(src)],
      [hasError |-> TRUE, error |-> ApiError, hasParse |-> TRUE, parse |-> PlainParse(src)],
      EmptyResponse }

\* what the network delivers for a request: a body, or a transport failure
NetEvents(src) ==
    { [failed |-> TRUE, body |-> EmptyResponse] }
    \cup { [failed |-> FALSE, body |-> r] : r \in RawResponses(src) }

\* a request that is rejected on transport failures only
RequestNoReject(ev) ==
    IF ev.failed THEN [rejected |-> TRUE, err |-> NoApiError, body |-> ev.body]
    ELSE [rejected |-> FALSE, err |-> NoApiError, body |-> ev.body]

\* MWBot.request: the promise is rejected on a transport failure and on a body
\* with an error member (the rejection carries its code and info, which the
\* catch of getView reads); otherwise it is resolved with the body
Request(ev) ==
    IF ev.failed THEN [rejected |-> TRUE, err |-> NoApiError, body |-> ev.body]
    ELSE IF ev.body.hasError THEN [rejected |-> TRUE, err |-> ev.body.error, body |-> ev.body]
    ELSE [rejected |-> FALSE, err |-> NoApiError, body |-> ev.body]

\* ViewConverter.getViewResultToJson / GetViewConvert.toGetViewResult: the typed
\* view of a body; each member is extracted on its own, a missing one is absent
GetViewResultToJson(result) ==
    [hasError |-> result.hasError,
     error    |-> IF result.hasError THEN result.error ELSE NoApiError,
     hasParse |-> result.hasParse,
     parse    |-> IF result.hasParse THEN result.parse ELSE EmptyParse]

(***************************************************************************)
(* State                                                                   *)
(***************************************************************************)
VARIABLES
    panels,                 \* the webview panels created so far, by handle 1..Len
    previewCurrentPlanel,   \* view.ts line 17: handle of the tracked panel, 0 = undefined
    bot,                    \* bot.ts line 391: "undefined" or "MWBot"
    calls                   \* the command invocations, each with its locals

vars == <<panels, previewCurrentPlanel, bot, calls>>

Panels == 1..Len(panels)

IdleCall ==
    [op |-> "none", pc |-> "idle", host |-> "", src |-> <<>>,
     panel |-> 0, made |-> 0, got |-> [failed |-> FALSE, hasError |-> FALSE, hasParse |-> FALSE],
     exit |-> "", msgs |-> <<>>]

Init ==
    /\ panels = <<>>
    /\ previewCurrentPlanel = 0
    /\ bot = "undefined"
    /\ calls = [c \in Calls |-> IdleCall]

\* vscode.window.createWebviewPanel(viewType, title, ...): a fresh panel
CreateWebviewPanel(viewType, title, listener) ==
    [viewType |-> viewType, title |-> <<title>>, html |-> <<>>,
     disposed |-> FALSE, onDidDispose |-> listener]

\* a disposed panel throws on every access to its webview or title
Usable(ps, p) == p # 0 /\ ~ps[p].disposed

Finish(c, how) == [calls[c] EXCEPT !.pc = "done", !.exit = how]

\* what a call keeps of the answer to its request: whether the request failed,
\* and which of the members error and parse the body had
Shape(ev) ==
    [failed |-> ev.failed, hasError |-> ev.body.hasError, hasParse |-> ev.body.hasParse]

(***************************************************************************)
(* getView, view.ts lines 117-154                                          *)
(***************************************************************************)
\* GetViewStart that looks for an open panel of the view type before it creates one
GetViewStartReuse(call, ps, viewType, target, viewerTitle) ==
    LET open == {p \in 1..Len(ps) : ps[p].viewType = viewType /\ ~ps[p].disposed}
        ps1 == IF viewType # "" /\ open = {}
               THEN Append(ps, CreateWebviewPanel(viewType, viewerTitle, FALSE))
               ELSE ps
        cur == IF viewType = "" THEN target
               ELSE IF open = {} THEN Len(ps1)
               ELSE CHOOSE p \in open : TRUE
    IN  IF ~Usable(ps1, cur)
        THEN [panels |-> ps1,
              call |-> [call EXCEPT !.pc = "done", !.exit = "threw", !.panel = cur]]
        ELSE [panels |-> [ps1 EXCEPT ![cur].html = LoadingDoc],
              call |-> [call EXCEPT !.pc = "request", !.panel = cur,
                                    !.made = IF viewType # "" /\ open = {} THEN cur ELSE call.made]]

\* GetViewStart without line 127: the request is issued with no placeholder shown
GetViewStartNoLoading(call, ps, viewType, target, viewerTitle) ==
    LET ps1 == IF viewType # "" THEN Append(ps, CreateWebviewPanel(viewType, viewerTitle, FALSE))
               ELSE ps
        cur == IF viewType # "" THEN Len(ps1) ELSE target
    IN  IF ~Usable(ps1, cur)
        THEN [panels |-> ps1,
              call |-> [call EXCEPT !.pc = "done", !.exit = "threw", !.panel = cur]]
        ELSE [panels |-> ps1,
              call |-> [call EXCEPT !.pc = "request", !.panel = cur,
                                    !.made = IF viewType # "" THEN cur ELSE call.made]]

\* lines 119-130, up to the await: target is a panel handle, or 0 with a view
\* type when getView is given a string.  Yields the panels and the call after it.
GetViewStart(call, ps, viewType, target, viewerTitle) ==
    LET ps1 == IF viewType # "" THEN Append(ps, CreateWebviewPanel(viewType, viewerTitle, FALSE))
               ELSE ps
        cur == IF viewType # "" THEN Len(ps1) ELSE target
    IN  IF ~Usable(ps1, cur)
        THEN \* line 127 throws outside the try: the promise of getView is rejected
             [panels |-> ps1,
              call |-> [call EXCEPT !.pc = "done", !.exit = "threw", !.panel = cur]]
        ELSE [panels |-> [ps1 EXCEPT ![cur].html = LoadingDoc],
              call |-> [call EXCEPT !.pc = "request", !.panel = cur,
                                    !.made = IF viewType # "" THEN cur ELSE call.made]]

ErrorMessage(err) ==
    [kind |-> "error",
     text |-> <<"ErrorCode:">> \o Interp(err.code) \o <<"| ErrorInfo:">> \o Interp(err.info)]

\* GetViewCatch that falls back to the tracked panel when its own is closed
GetViewCatchTracked(call, ps, err) ==
    LET shown == [call EXCEPT !.msgs = Append(@, ErrorMessage(err))]
    IN  IF Usable(ps, call.panel)
        THEN [panels |-> [ps EXCEPT ![call.panel].html = ErrorDoc],
              call |-> [shown EXCEPT !.pc = "done", !.exit = "caught"]]
        ELSE IF Usable(ps, previewCurrentPlanel)
        THEN [panels |-> [ps EXCEPT ![previewCurrentPlanel].html = ErrorDoc],
              call |-> [shown EXCEPT !.pc = "done", !.exit = "caught"]]
        ELSE [panels |-> ps,
              call |-> [shown EXCEPT !.pc = "done", !.exit = "rethrown"]]

\* lines 148-153: the catch block
GetViewCatch(call, ps, err) ==
    LET shown == [call EXCEPT !.msgs = Append(@, ErrorMessage(err))]
    IN  IF Usable(ps, call.panel)
        THEN [panels |-> [ps EXCEPT ![call.panel].html = ErrorDoc],
              call |-> [shown EXCEPT !.pc = "done", !.exit = "caught"]]
        ELSE [panels |-> ps,
              call |-> [shown EXCEPT !.pc = "done", !.exit = "rethrown"]]

\* GetViewResume that renders only onto a surface that still shows the
\* placeholder: a response that arrives after another was rendered is dropped
GetViewResumeFirstWins(call, ps, viewerTitle, ev) ==
    LET settled == Request(ev)
        re      == GetViewResultToJson(settled.body)
        got     == [call EXCEPT !.got = Shape(ev)]
    IN  IF settled.rejected THEN GetViewCatch(got, ps, settled.err)
        ELSE IF ~re.hasParse
        THEN [panels |-> ps, call |-> [got EXCEPT !.pc = "done", !.exit = "noParse"]]
        ELSE IF ~Usable(ps, call.panel)
        THEN GetViewCatch(got, ps, NoApiError)
        ELSE IF ps[call.panel].html # LoadingDoc
        THEN [panels |-> ps, call |-> [got EXCEPT !.pc = "done", !.exit = "rendered"]]
        ELSE [panels |-> [ps EXCEPT ![call.panel].html = AssembleHtml(re.parse, BaseHref(call.host)),
                                    ![call.panel].title = AssembleTitle(viewerTitle, re.parse)],
              call |-> [got EXCEPT !.pc = "done", !.exit = "rendered"]]

\* lines 130-153: the continuation of getView once the request is settled
GetViewResume(call, ps, viewerTitle, ev) ==
    LET settled == Request(ev)
        re      == GetViewResultToJson(settled.body)
        got     == [call EXCEPT !.got = Shape(ev)]
    IN  IF settled.rejected THEN GetViewCatch(got, ps, settled.err)
        ELSE IF ~re.hasParse
        THEN [panels |-> ps, call |-> [got EXCEPT !.pc = "done", !.exit = "noParse"]]
        ELSE IF ~Usable(ps, call.panel)
        THEN GetViewCatch(got, ps, NoApiError)
        ELSE [panels |-> [ps EXCEPT ![call.panel].html = AssembleHtml(re.parse, BaseHref(call.host)),
                                    ![call.panel].title = AssembleTitle(viewerTitle, re.parse)],
              call |-> [got EXCEPT !.pc = "done", !.exit = "rendered"]]

ViewerTitleOf(op) == IF op = "getPreview" THEN "WikitextPreviewer" ELSE "WikiViewer"

\* the request of a getView call is settled and its continuation runs
GetViewSettled(c) ==
    /\ calls[c].op \in {"getPreview", "getPageView"}
    /\ calls[c].pc = "request"
    /\ \E ev \in NetEvents(calls[c].src) :
         LET r == GetViewResume(calls[c], panels, ViewerTitleOf(calls[c].op), ev)
         IN  /\ panels' = r.panels
             /\ calls' = [calls EXCEPT ![c] = r.call]
    /\ UNCHANGED <<previewCurrentPlanel, bot>>

(***************************************************************************)
(* Command invocations                                                     *)
(***************************************************************************)
Commands == {"getPreview", "getPageView", "viewPage", "login", "logout"}

\* the first await of a command: getHost() in getPreview, getPageView and login,
\* showInputBox() in viewPage, bot?.getEditToken() in logout
FirstAwait(op) ==
    IF op = "viewPage" THEN "title" ELSE IF op = "logout" THEN "token" ELSE "host"

\* the user runs a command: the function runs up to its first await;
\* invocations are numbered in the order in which they start
Invoke(c) ==
    /\ calls[c].pc = "idle"
    /\ \A d \in Calls : d < c => calls[d].pc # "idle"
    /\ \E op \in Commands :
         calls' = [calls EXCEPT ![c].op = op, ![c].pc = FirstAwait(op)]
    /\ UNCHANGED <<panels, previewCurrentPlanel, bot>>

\* the listener without its assignment: the reference survives the close
OnDidDisposeKeep(tracked) == tracked

\* view.ts lines 57-59: the listener getPreview registers on its panel
OnDidDispose(tracked) == 0

\* the user closes panel p: the panel is disposed and its listeners run
Dispose(p) ==
    /\ p \in Panels
    /\ ~panels[p].disposed
    /\ panels' = [panels EXCEPT ![p].disposed = TRUE]
    /\ previewCurrentPlanel' = IF panels[p].onDidDispose
                               THEN OnDidDispose(previewCurrentPlanel)
                               ELSE previewCurrentPlanel
    /\ UNCHANGED <<bot, calls>>

(***************************************************************************)
(* getPreview, view.ts lines 19-70                                         *)
(***************************************************************************)
\* TrackedPanel without the test of line 50: a panel is created on every call
TrackedPanelNoReuse(ps, tracked) ==
    [panels |-> Append(ps, CreateWebviewPanel("previewer", "WikitextPreviewer", TRUE)),
     tracked |-> Len(ps) + 1, made |-> Len(ps) + 1]

\* lines 50-60: the tracked panel, created when there is none
TrackedPanel(ps, tracked) ==
    IF tracked = 0
    THEN [panels |-> Append(ps, CreateWebviewPanel("previewer", "WikitextPreviewer", TRUE)),
          tracked |-> Len(ps) + 1, made |-> Len(ps) + 1]
    ELSE [panels |-> ps, tracked |-> tracked, made |-> 0]

\* lines 22-62: from the result of getHost() to the await of getBot(); getBot
\* (bot.ts lines 450-465) answers at once when bot is set, and the call then runs
\* on into getView; otherwise getBot awaits getHost()
GetPreviewAfterHost(c) ==
    /\ calls[c].op = "getPreview"
    /\ calls[c].pc = "host"
    /\ \E host \in HostResults, sourceText \in SourceTexts(c) :
         IF host = ""
         THEN /\ calls' = [calls EXCEPT ![c] = Finish(c, "noHost")]
              /\ UNCHANGED <<panels, previewCurrentPlanel>>
         ELSE IF ~Truthy(sourceText)
         THEN /\ calls' = [calls EXCEPT ![c] = Finish(c, "noText")]
              /\ UNCHANGED <<panels, previewCurrentPlanel>>
         ELSE LET t    == TrackedPanel(panels, previewCurrentPlanel)
                  call == [calls[c] EXCEPT !.host = host, !.made = t.made,
                                           !.src = RemovePageInfo(sourceText.val)]
              IN  /\ previewCurrentPlanel' = t.tracked
                  /\ IF bot # "undefined"
                     THEN LET r == GetViewStart(call, t.panels, "", t.tracked, "WikitextPreviewer")
                          IN  /\ panels' = r.panels
                              /\ calls' = [calls EXCEPT ![c] = r.call]
                     ELSE /\ panels' = t.panels
                          /\ calls' = [calls EXCEPT ![c] = [call EXCEPT !.pc = "bot"]]
    /\ UNCHANGED bot

(***************************************************************************)
(* getPageView, view.ts lines 72-106                                       *)
(***************************************************************************)
\* lines 75-78: from the result of getHost() to the await of showInputBox()
GetPageViewAfterHost(c) ==
    /\ calls[c].op = "getPageView"
    /\ calls[c].pc = "host"
    /\ \E host \in HostResults :
         calls' = [calls EXCEPT ![c] = IF host = "" THEN Finish(c, "noHost")
                                       ELSE [calls[c] EXCEPT !.host = host, !.pc = "title"]]
    /\ UNCHANGED <<panels, previewCurrentPlanel, bot>>

\* lines 78-98: from the page name to the await of getBot()
GetPageViewAfterTitle(c) ==
    /\ calls[c].op = "getPageView"
    /\ calls[c].pc = "title"
    /\ \E pageTitle \in TitleInputs :
         IF ~Truthy(pageTitle)
         THEN /\ calls' = [calls EXCEPT ![c] = Finish(c, "noTitle")]
              /\ UNCHANGED panels
         ELSE LET call == [calls[c] EXCEPT !.src = pageTitle.val]
              IN  IF bot # "undefined"
                  THEN LET r == GetViewStart(call, panels, "pageViewer", 0, "WikiViewer")
                       IN  /\ panels' = r.panels
                           /\ calls' = [calls EXCEPT ![c] = r.call]
                  ELSE /\ calls' = [calls EXCEPT ![c] = [call EXCEPT !.pc = "bot"]]
                       /\ UNCHANGED panels
    /\ UNCHANGED <<previewCurrentPlanel, bot>>

\* bot.ts lines 456-464 and view.ts lines 62-69, 98-105: getHost() inside getBot
\* has answered; without a host getBot yields undefined and the caller returns,
\* otherwise the caller calls getView
AfterGetBot(c) ==
    /\ calls[c].op \in {"getPreview", "getPageView"}
    /\ calls[c].pc = "bot"
    /\ \E host \in HostResults :
         IF host = ""
         THEN /\ calls' = [calls EXCEPT ![c] = Finish(c, "noBot")]
              /\ UNCHANGED panels
         ELSE LET r == IF calls[c].op = "getPreview"
                       THEN GetViewStart(calls[c], panels, "", previewCurrentPlanel, "WikitextPreviewer")
                       ELSE GetViewStart(calls[c], panels, "pageViewer", 0, "WikiViewer")
              IN  /\ panels' = r.panels
                  /\ calls' = [calls EXCEPT ![c] = r.call]
    /\ UNCHANGED <<previewCurrentPlanel, bot>>

(***************************************************************************)
(* viewPage, wmcore.ts lines 201-267                                       *)
(***************************************************************************)
\* lines 203-221: from the page name to sendRequest
ViewPageAfterTitle(c) ==
    /\ calls[c].op = "viewPage"
    /\ calls[c].pc = "title"
    /\ \E pageTitle \in TitleInputs :
         calls' = [calls EXCEPT ![c] =
                      IF ~Truthy(pageTitle) THEN Finish(c, "noTitle")
                      ELSE [calls[c] EXCEPT !.src = pageTitle.val, !.pc = "request"]]
    /\ UNCHANGED <<panels, previewCurrentPlanel, bot>>

\* lines 223-233: requestCallback runs when the response begins
ViewPageCallback(c) ==
    /\ calls[c].op = "viewPage"
    /\ calls[c].pc = "request"
    /\ panels' = Append(panels, CreateWebviewPanel("pageViewer", "PageViewer", FALSE))
    /\ calls' = [calls EXCEPT ![c].pc = "stream", ![c].panel = Len(panels) + 1,
                              ![c].made = Len(panels) + 1]
    /\ UNCHANGED <<previewCurrentPlanel, bot>>

\* lines 235-261: the handler of the stream's end event
ViewPageOnEnd(call, ps, css, body) ==
    LET re  == GetViewResultToJson(body)
        got == [call EXCEPT !.got = Shape([failed |-> FALSE, body |-> body]), !.pc = "done"]
    IN  IF re.hasError
        THEN [panels |-> ps,
              call |-> [got EXCEPT !.exit = "apiError",
                                   !.msgs = Append(@, [kind |-> "error",
                                       text |-> Interp(re.error.code) \o <<"! ">> \o Interp(re.error.info)])]]
        ELSE IF re.hasParse
        THEN IF Usable(ps, call.panel)
             THEN [panels |-> [ps EXCEPT ![call.panel].html = ViewPageHtml(re.parse, css),
                                         ![call.panel].title = ViewPageTitle(re.parse)],
                   call |-> [got EXCEPT !.exit = "rendered"]]
             ELSE [panels |-> ps, call |-> [got EXCEPT !.exit = "threw"]]
        ELSE [panels |-> ps, call |-> [got EXCEPT !.exit = "noParse"]]

ViewPageEnd(c) ==
    /\ calls[c].op = "viewPage"
    /\ calls[c].pc = "stream"
    /\ \E body \in RawResponses(calls[c].src), getCss \in BOOLEAN :
         LET r == ViewPageOnEnd(calls[c], panels, getCss, body)
         IN  /\ panels' = r.panels
             /\ calls' = [calls EXCEPT ![c] = r.call]
    /\ UNCHANGED <<previewCurrentPlanel, bot>>

\* lines 263-265: the handler of the stream's error event
ViewPageOnError(call) ==
    [call EXCEPT !.got = Shape([failed |-> TRUE, body |-> EmptyResponse]), !.pc = "done",
                 !.exit = "streamError",
                 !.msgs = Append(@, [kind |-> "error", text |-> <<"Error">>])]

ViewPageError(c) ==
    /\ calls[c].op = "viewPage"
    /\ calls[c].pc = "stream"
    /\ calls' = [calls EXCEPT ![c] = ViewPageOnError(calls[c])]
    /\ UNCHANGED <<panels, previewCurrentPlanel, bot>>

(***************************************************************************)
(* login and logout, bot.ts lines 393-448                                  *)
(***************************************************************************)
Message(kind) == [kind |-> kind, text |-> <<>>]

\* lines 396-414: from the result of getHost() to the await of bot.login()
LoginAfterHost(c) ==
    /\ calls[c].op = "login"
    /\ calls[c].pc = "host"
    /\ \E host \in HostResults, credentials \in BOOLEAN :
         IF host = ""
         THEN /\ calls' = [calls EXCEPT ![c] = Finish(c, "noHost")]
              /\ UNCHANGED bot
         ELSE IF ~credentials
         THEN /\ calls' = [calls EXCEPT ![c] =
                              [Finish(c, "noCredentials") EXCEPT !.msgs = Append(@, Message("warning"))]]
              /\ UNCHANGED bot
         ELSE /\ bot' = "MWBot"
              /\ calls' = [calls EXCEPT ![c].pc = "login"]
    /\ UNCHANGED <<panels, previewCurrentPlanel>>

\* lines 414-425: bot.login() is settled
LoginSettled(c) ==
    /\ calls[c].op = "login"
    /\ calls[c].pc = "login"
    /\ \E ok \in BOOLEAN :
         calls' = [calls EXCEPT ![c] =
                      IF ok THEN [Finish(c, "loggedIn") EXCEPT !.msgs = Append(@, Message("information"))]
                      ELSE [Finish(c, "loginFailed") EXCEPT !.msgs = Append(@, Message("error"))]]
    /\ UNCHANGED <<panels, previewCurrentPlanel, bot>>

\* lines 429-432: bot?.getEditToken() is settled; its rejection leaves logout
LogoutAfterToken(c) ==
    /\ calls[c].op = "logout"
    /\ calls[c].pc = "token"
    /\ \E ok \in BOOLEAN :
         calls' = [calls EXCEPT ![c] =
                      IF bot # "undefined" /\ ~ok THEN Finish(c, "threw")
                      ELSE [calls[c] EXCEPT !.pc = "logout"]]
    /\ UNCHANGED <<panels, previewCurrentPlanel, bot>>

\* lines 432-447: the logout request is settled
LogoutSettled(c) ==
    /\ calls[c].op = "logout"
    /\ calls[c].pc = "logout"
    /\ \E ok \in BOOLEAN :
         IF bot = "undefined" \/ ok
         THEN /\ bot' = "undefined"
              /\ calls' = [calls EXCEPT ![c] =
                              [Finish(c, "loggedOut") EXCEPT !.msgs = Append(@, Message("information"))]]
         ELSE /\ calls' = [calls EXCEPT ![c] =
                              [Finish(c, "logoutFailed") EXCEPT !.msgs = Append(@, Message("error"))]]
              /\ UNCHANGED bot
    /\ UNCHANGED <<panels, previewCurrentPlanel>>

(***************************************************************************)
(* Specification                                                           *)
(***************************************************************************)
Next ==
    \/ \E c \in Calls : Invoke(c)
    \/ \E c \in Calls : GetPreviewAfterHost(c)
    \/ \E c \in Calls : GetPageViewAfterHost(c)
    \/ \E c \in Calls : GetPageViewAfterTitle(c)
    \/ \E c \in Calls : AfterGetBot(c)
    \/ \E c \in Calls : GetViewSettled(c)
    \/ \E c \in Calls : ViewPageAfterTitle(c)
    \/ \E c \in Calls : ViewPageCallback(c)
    \/ \E c \in Calls : ViewPageEnd(c)
    \/ \E c \in Calls : ViewPageError(c)
    \/ \E p \in Panels : Dispose(p)
    \/ \E c \in Calls : LoginAfterHost(c)
    \/ \E c \in Calls : LoginSettled(c)
    \/ \E c \in Calls : LogoutAfterToken(c)
    \/ \E c \in Calls : LogoutSettled(c)

Spec == Init /\ [][Next]_vars

(***************************************************************************)
(* Properties                                                              *)
(***************************************************************************)
GetViewOps == {"getPreview", "getPageView"}

\* the undisposed panels getPreview created
LivePreviewPanels ==
    {p \in Panels : panels[p].viewType = "previewer" /\ ~panels[p].disposed}

\* call c passes from getPreview into getView in this step
HandsToGetView(c) ==
    /\ calls[c].op = "getPreview"
    /\ calls[c].pc \in {"host", "bot"}
    /\ \/ calls'[c].pc = "request"
       \/ calls'[c].pc = "done" /\ calls'[c].exit = "threw"

\* call c passes the checks of lines 23 and 27 of getPreview in this step
PassesPreconditions(c) ==
    /\ calls[c].op = "getPreview"
    /\ calls[c].pc = "host"
    /\ calls'[c].pc # "host"
    /\ ~(calls'[c].pc = "done" /\ calls'[c].exit \in {"noHost", "noText"})

C1_AtMostOneLive ==
    /\ Cardinality(LivePreviewPanels) <= 1
    /\ \A p \in LivePreviewPanels : previewCurrentPlanel = p
    /\ previewCurrentPlanel # 0 => previewCurrentPlanel \in LivePreviewPanels

C1_ReuseStep ==
    \A c \in Calls :
        /\ (PassesPreconditions(c) /\ previewCurrentPlanel # 0) =>
              /\ Len(panels') = Len(panels)
              /\ previewCurrentPlanel' = previewCurrentPlanel
        /\ HandsToGetView(c) => calls'[c].panel = previewCurrentPlanel'

\* C1: under every interleaving of getPreview calls, responses and closes, at
\* most one undisposed panel created by getPreview exists, and it is the one
\* previewCurrentPlanel tracks; a getPreview call that finds a tracked panel
\* creates no panel, and what getPreview hands to getView is the tracked panel.
C1_SingleTrackedPanel == []C1_AtMostOneLive /\ [][C1_ReuseStep]_vars

\* two getPreview calls have their requests in flight on the one tracked panel;
\* the first created it, the second found it
C1_Witness ==
    \E c, d \in Calls :
        /\ c # d
        /\ calls[c].op = "getPreview" /\ calls[c].pc = "request" /\ calls[c].made # 0
        /\ calls[d].op = "getPreview" /\ calls[d].pc = "request" /\ calls[d].made = 0
        /\ calls[c].panel = previewCurrentPlanel
        /\ calls[d].panel = previewCurrentPlanel
        /\ Len(panels) = 1

C2_Step ==
    /\ \A p \in Panels :
          (~panels[p].disposed /\ panels'[p].disposed /\ previewCurrentPlanel = p)
              => previewCurrentPlanel' = 0
    /\ \A c \in Calls :
          /\ (PassesPreconditions(c) /\ previewCurrentPlanel = 0) =>
                /\ Len(panels') = Len(panels) + 1
                /\ previewCurrentPlanel' = Len(panels')
                /\ ~panels'[Len(panels')].disposed
                /\ calls'[c].made = Len(panels')
          /\ (HandsToGetView(c) /\ calls'[c].panel # 0) => ~panels'[calls'[c].panel].disposed

\* C2: when the user closes the tracked live-preview panel the tracked reference
\* is cleared, and the next getPreview call that passes its precondition checks
\* creates a fresh panel; getPreview never hands a disposed panel to getView.
C2_FreshPanelAfterClose == [][C2_Step]_vars

\* a first previewer panel was closed, and a later getPreview call created the
\* panel that is tracked now
C2_Witness ==
    \E c \in Calls :
        /\ Len(panels) = 2
        /\ panels[1].viewType = "previewer" /\ panels[1].disposed
        /\ panels[2].viewType = "previewer" /\ ~panels[2].disposed
        /\ previewCurrentPlanel = 2
        /\ calls[c].op = "getPreview" /\ calls[c].made = 2 /\ calls[c].pc = "request"

C3_Step ==
    \A c \in Calls :
        (calls[c].op \in GetViewOps /\ calls[c].pc # "request" /\ calls'[c].pc = "request") =>
            /\ calls'[c].panel \in 1..Len(panels')
            /\ panels'[calls'[c].panel].html = LoadingDoc

\* C3: in every getView call the request is issued only after the surface of
\* that call was given the "Loading..." placeholder: at the moment the request
\* goes out, the surface shows the placeholder.
C3_LoadingBeforeRequest == [][C3_Step]_vars

\* a getView call has its request in flight and its surface shows the placeholder
C3_Witness ==
    \E c \in Calls :
        /\ calls[c].op \in GetViewOps /\ calls[c].pc = "request"
        /\ panels[calls[c].panel].html = LoadingDoc

\* C4: while a parse request issued by getView for a surface is in flight, the
\* surface shows the loading placeholder, also when live-preview requests on the
\* tracked panel overlap.
C4_LoadingWhileInFlight ==
    \A c \in Calls :
        (calls[c].op \in GetViewOps /\ calls[c].pc = "request") =>
            panels[calls[c].panel].html = LoadingDoc

PageOps == {"getPageView", "viewPage"}

C5_Untracked ==
    \A c \in Calls :
        (calls[c].op \in PageOps /\ calls[c].panel # 0) =>
            /\ calls[c].panel # previewCurrentPlanel
            /\ panels[calls[c].panel].viewType = "pageViewer"
            /\ ~panels[calls[c].panel].onDidDispose
            /\ \A d \in Calls : d # c => calls[d].panel # calls[c].panel

C5_Step ==
    \A c \in Calls :
        calls[c].op \in PageOps =>
            /\ calls'[c] # calls[c] => previewCurrentPlanel' = previewCurrentPlanel
            /\ (calls[c].pc # "request" /\ calls'[c].pc = "request" /\ calls[c].op = "getPageView") =>
                  /\ Len(panels') = Len(panels) + 1
                  /\ calls'[c].panel = Len(panels')
            /\ (calls[c].panel = 0 /\ calls'[c].panel # 0) =>
                  /\ Len(panels') = Len(panels) + 1
                  /\ calls'[c].panel = Len(panels')
                  /\ calls'[c].made = Len(panels')

\* C5: every getPageView invocation that reaches getView (and every viewPage
\* response) gets a panel created in that step; the panel is shared with no other
\* invocation, is never the tracked live-preview panel, and no step of the
\* page-viewer workflow changes previewCurrentPlanel.
C5_PageViewIndependent == []C5_Untracked /\ [][C5_Step]_vars

\* two getPageView invocations have requests in flight, each on its own panel
C5_Witness ==
    \E c, d \in Calls :
        /\ c # d
        /\ calls[c].op = "getPageView" /\ calls[c].pc = "request"
        /\ calls[d].op = "getPageView" /\ calls[d].pc = "request"
        /\ calls[c].panel # calls[d].panel
        /\ ~panels[calls[c].panel].disposed /\ ~panels[calls[d].panel].disposed

\* the continuation that handles the response of call c runs in this step
HandlesResponse(c) ==
    /\ calls'[c].pc = "done"
    /\ \/ calls[c].op \in GetViewOps /\ calls[c].pc = "request"
       \/ calls[c].op = "viewPage" /\ calls[c].pc = "stream"

\* the response handled in this step carries a top-level error object
HandlesApiError(c) ==
    HandlesResponse(c) /\ ~calls'[c].got.failed /\ calls'[c].got.hasError

\* the request handled in this step failed at the transport level
HandlesFailure(c) == HandlesResponse(c) /\ calls'[c].got.failed

RECURSIVE IsInfix(_, _, _)
IsInfix(part, whole, i) ==
    IF i + Len(part) - 1 > Len(whole) THEN FALSE
    ELSE IF SubSeq(whole, i, i + Len(part) - 1) = part THEN TRUE
    ELSE IsInfix(part, whole, i + 1)

\* message m is an error message built from the code and the info of err
BuiltFrom(m, err) ==
    /\ m.kind = "error"
    /\ IsInfix(err.code.val, m.text, 1)
    /\ IsInfix(err.info.val, m.text, 1)

\* C6: whenever the parse request yields an API-level error, an error message
\* built from the error code and info is shown and the content of the display
\* surface is overwritten with the "Error" placeholder.
C6_ApiErrorShown ==
    [][\A c \in Calls :
          HandlesApiError(c) =>
              /\ \E i \in 1..Len(calls'[c].msgs) :
                    BuiltFrom(calls'[c].msgs[i], ApiError)
              /\ panels'[calls[c].panel].html = ErrorDoc]_vars

C7_Step ==
    \A c \in Calls :
        HandlesApiError(c) =>
            /\ calls'[c].exit # "rendered"
            /\ \A p \in Panels :
                  /\ panels'[p].title = panels[p].title
                  /\ panels'[p].html \in {panels[p].html, ErrorDoc}

\* C7: a top-level error object takes precedence over every other member of
\* the response: handling such a response writes no title and no assembled
\* document to any surface, also when the response carries a parse payload.
C7_ErrorPrecedence == [][C7_Step]_vars

\* a getView call and a viewPage call have each handled a response that
\* carried an error object together with a parse payload
C7_Witness ==
    \E c, d \in Calls :
        /\ calls[c].op \in GetViewOps /\ calls[c].pc = "done" /\ calls[c].exit = "caught"
        /\ calls[c].got.hasError /\ calls[c].got.hasParse
        /\ panels[calls[c].panel].html = ErrorDoc
        /\ calls[d].op = "viewPage" /\ calls[d].pc = "done" /\ calls[d].exit = "apiError"
        /\ calls[d].got.hasError /\ calls[d].got.hasParse

\* C8: when the request fails at the transport level the failure is caught, a
\* message is shown, the content of the surface is overwritten with the "Error"
\* placeholder and its title is left unchanged.
C8_TransportFailureShown ==
    [][\A c \in Calls :
          HandlesFailure(c) =>
              /\ Len(calls'[c].msgs) > Len(calls[c].msgs)
              /\ panels'[calls[c].panel].html = ErrorDoc
              /\ panels'[calls[c].panel].title = panels[calls[c].panel].title]_vars

\* C9: an operation that ends on a missing precondition (no host, no document
\* text, no title) is a silent no-op: it has shown no message and has created
\* no surface.
C9_SilentNoOp ==
    \A c \in Calls :
        (/\ calls[c].op \in {"getPreview", "getPageView", "viewPage"}
         /\ calls[c].pc = "done"
         /\ calls[c].exit \in {"noHost", "noText", "noTitle", "noBot"}) =>
            /\ calls[c].msgs = <<>>
            /\ calls[c].made = 0
            /\ calls[c].panel = 0

\* the response of call d has been applied to its surface
Applied(d) == calls[d].pc = "done" /\ calls[d].exit \in {"rendered", "caught"}

\* C10: when a second live preview was triggered before the response of the
\* first arrived and the first response arrives after the second, the surface
\* keeps the result of the second request: the stale response changes nothing.
C10_StaleResponseDropped ==
    [][\A c, d \in Calls :
          (/\ c < d
           /\ calls[c].op = "getPreview" /\ calls[d].op = "getPreview"
           /\ calls[c].panel = calls[d].panel
           /\ Applied(d)
           /\ HandlesResponse(c)) =>
              panels'[calls[c].panel] = panels[calls[c].panel]]_vars

(***************************************************************************)
(* Rendering: one invocation of a viewer command, answered with every      *)
(* shape of parse payload the wiki can send                                *)
(***************************************************************************)
\* the members of a parse payload; each may be missing, be there without its
\* "*" member, or carry an empty or a non-empty text
TextFields(src) ==
    { NoField, Field(Absent), Field(Some(<<>>)), Field(Some(BodyOf(src))) }

DisplayTitles(src) == { Absent, Some(src) }

HeadFields ==
    { NoField, Field(Absent), Field(Some(<<>>)),
      Field(Some(<<"<!DOCTYPE html><html>", "<head>", "<title/>", "</head>", "<body>">>)),
      Field(Some(<<"<!DOCTYPE html><html>", "<head lang>", "<title/>", "</head>", "<body>">>)) }

CategoriesFields ==
    { NoField, Field(Absent), Field(Some(<<>>)), Field(Some(<<"<div id=catlinks/>">>)) }

ParsePayloads(src) ==
    [text : TextFields(src), displaytitle : DisplayTitles(src),
     headhtml : HeadFields, categorieshtml : CategoriesFields]

\* the bodies that carry a parse payload and no error
ParseResponses(src) ==
    { [hasError |-> FALSE, error |-> NoApiError, hasParse |-> TRUE, parse |-> p] :
        p \in ParsePayloads(src) }

\* the invocation whose rendering is followed
RenderCall == 1

RenderOps == {"getPreview", "getPageView", "viewPage"}

RenderInvoke == Invoke(RenderCall) /\ calls'[RenderCall].op \in RenderOps

\* GetViewSettled over every payload; the call keeps the whole answer
RenderGetViewSettled(c) ==
    /\ calls[c].op \in {"getPreview", "getPageView"}
    /\ calls[c].pc = "request"
    /\ \E ev \in NetEvents(calls[c].src)
                 \cup { [failed |-> FALSE, body |-> r] : r \in ParseResponses(calls[c].src) } :
         LET r == GetViewResume(calls[c], panels, ViewerTitleOf(calls[c].op), ev)
         IN  /\ panels' = r.panels
             /\ calls' = [calls EXCEPT ![c] = [r.call EXCEPT !.got = ev]]
    /\ UNCHANGED <<previewCurrentPlanel, bot>>

\* ViewPageEnd over every payload; the call keeps the whole answer
RenderViewPageEnd(c) ==
    /\ calls[c].op = "viewPage"
    /\ calls[c].pc = "stream"
    /\ \E body \in RawResponses(calls[c].src) \cup ParseResponses(calls[c].src),
          getCss \in BOOLEAN :
         LET r == ViewPageOnEnd(calls[c], panels, getCss, body)
         IN  /\ panels' = r.panels
             /\ calls' = [calls EXCEPT ![c] =
                              [r.call EXCEPT !.got = [failed |-> FALSE, body |-> body]]]
    /\ UNCHANGED <<previewCurrentPlanel, bot>>

RenderNext ==
    \/ RenderInvoke
    \/ GetPreviewAfterHost(RenderCall)
    \/ GetPageViewAfterHost(RenderCall)
    \/ GetPageViewAfterTitle(RenderCall)
    \/ AfterGetBot(RenderCall)
    \/ RenderGetViewSettled(RenderCall)
    \/ ViewPageAfterTitle(RenderCall)
    \/ ViewPageCallback(RenderCall)
    \/ RenderViewPageEnd(RenderCall)
    \/ ViewPageError(RenderCall)

RenderSpec == Init /\ [][RenderNext]_vars

\* call c has written the document and the title of its response to its surface
Rendered(c) == calls[c].pc = "done" /\ calls[c].exit = "rendered"

\* the parse payload of the answer call c received
ParseOf(c) == calls[c].got.body.parse

\* the label a command gives its surface in the title it writes
ViewerLabel(op) == IF op = "getPageView" THEN "WikiViewer" ELSE "WikitextPreviewer"

\* C11: after a successful render the title of the surface is the viewer label,
\* ": " and the display title when the response carried a display title, and the
\* viewer label alone when it did not.
C11_TitleFormed ==
    \A c \in Calls :
        Rendered(c) =>
            panels[calls[c].panel].title =
                IF ParseOf(c).displaytitle.present
                THEN <<ViewerLabel(calls[c].op), ": ">> \o ParseOf(c).displaytitle.val
                ELSE <<ViewerLabel(calls[c].op)>>

\* the number of places at which token tok stands in s
RECURSIVE Count(_, _)
Count(s, tok) ==
    IF s = <<>> THEN 0
    ELSE (IF Head(s) = tok THEN 1 ELSE 0) + Count(Tail(s), tok)

StartsWith(s, t) == Len(t) <= Len(s) /\ SubSeq(s, 1, Len(t)) = t

EndsWith(s, t) == Len(t) <= Len(s) /\ SubSeq(s, Len(s) - Len(t) + 1, Len(s)) = t

\* call c is a getView call that has rendered its response
RenderedView(c) == Rendered(c) /\ calls[c].op \in GetViewOps

\* the body fragment of the answer call c received
BodyFragment(c) ==
    IF Truthy(Star(ParseOf(c).text)) THEN Star(ParseOf(c).text).val ELSE <<>>

\* C12: for every successful parse response, a response without categories HTML
\* (no member, no payload or an empty payload) yields a document without a
\* horizontal rule; a response with categories HTML yields a document in which
\* the rule followed by the categories fragment stands exactly once, directly
\* after the body fragment and directly before the document close.
C12_CategoriesSegment ==
    \A c \in Calls :
        RenderedView(c) =>
            LET doc == panels[calls[c].panel].html
                cat == Star(ParseOf(c).categorieshtml)
            IN  IF Truthy(cat)
                THEN /\ Count(doc, "<hr />") = 1
                     /\ Count(doc, cat.val[1]) = 1
                     /\ EndsWith(doc, BodyFragment(c) \o <<"<hr />">> \o cat.val
                                         \o <<"</body></html>">>)
                ELSE /\ Count(doc, "<hr />") = 0
                     /\ EndsWith(doc, BodyFragment(c) \o <<"</body></html>">>)

\* a getView call has rendered a response that carried a body, a head and
\* categories: the rule and the categories stand between body and close
C12_Witness ==
    \E c \in Calls :
        /\ RenderedView(c)
        /\ Truthy(Star(ParseOf(c).categorieshtml))
        /\ Truthy(Star(ParseOf(c).text))
        /\ Truthy(Star(ParseOf(c).headhtml))
        /\ Count(panels[calls[c].panel].html, "<hr />") = 1

\* the base tag for a base address
BaseTag(baseURI) == <<"<base href=\"">> \o baseURI \o <<"\" />">>

\* the place of the opening head tag in a head fragment, 0 when it has none
OpeningHead(s) ==
    LET at == {i \in 1..Len(s) : s[i] \in {"<head>", "<head lang>"}}
    IN  IF at = {} THEN 0 ELSE CHOOSE i \in at : \A j \in at : i <= j

\* C13: in the assembled document the base tag and the style block are always
\* present: with head HTML supplied they stand directly after the opening head
\* tag of that fragment; with head HTML missing the document starts with a
\* minimal head that holds the base tag and the style block and nothing else;
\* a response with a parse payload is rendered, whatever its head.
C13_HeadInjected ==
    \A c \in Calls :
        /\ (/\ calls[c].op \in GetViewOps /\ calls[c].pc = "done"
            /\ calls[c].exit \in {"rendered", "caught", "rethrown"}
            /\ ~calls[c].got.failed /\ ~calls[c].got.body.hasError
            /\ calls[c].got.body.hasParse) => calls[c].exit = "rendered"
        /\ RenderedView(c) =>
              LET doc    == panels[calls[c].panel].html
                  head   == Star(ParseOf(c).headhtml)
                  inject == BaseTag(BaseHref(calls[c].host)) \o StyleElem
              IN  IF head.present
                  THEN LET i == OpeningHead(head.val)
                       IN  /\ i # 0
                           /\ StartsWith(doc, SubSeq(head.val, 1, i) \o inject
                                               \o SubSeq(head.val, i + 1, Len(head.val)))
                  ELSE StartsWith(doc, <<"<!DOCTYPE html><html>", "<head>">> \o inject
                                          \o <<"</head>", "<body>">>)

\* the surface p shows the document and the title of the response to call c:
\* the wiki echoes the text of the request in the body and the display title
ShowsResponseOf(ps, p, c) ==
    /\ IsInfix(BodyOf(calls[c].src), ps[p].html, 1)
    /\ ps[p].title = <<"WikitextPreviewer", ": ">> \o calls[c].src

\* when the response of a live-preview call is handled on an open surface, the
\* surface takes what that response yields, whatever was applied before it
C14_Step ==
    \A c \in Calls :
        (/\ calls[c].op = "getPreview"
         /\ HandlesResponse(c)
         /\ Usable(panels, calls[c].panel)) =>
            LET p == calls[c].panel
                g == calls'[c].got
            IN  /\ \A q \in Panels : q # p => panels'[q] = panels[q]
                /\ IF g.failed \/ g.hasError
                   THEN panels'[p].html = ErrorDoc /\ panels'[p].title = panels[p].title
                   ELSE IF g.hasParse
                   THEN ShowsResponseOf(panels', p, c)
                   ELSE panels'[p] = panels[p]

\* the live-preview calls that have issued a request on surface p
RequestsOn(p) ==
    {c \in Calls : /\ calls[c].op = "getPreview"
                   /\ calls[c].panel = p
                   /\ calls[c].pc = "request" \/ (calls[c].pc = "done" /\ calls[c].exit # "threw")}

\* when several live-preview calls have issued requests on one open surface
\* and each has rendered its response, the surface shows the document and the
\* title of one and the same of these responses
C14_Settled ==
    \A p \in Panels :
        (/\ Usable(panels, p)
         /\ Cardinality(RequestsOn(p)) >= 2
         /\ \A c \in RequestsOn(p) : Rendered(c)) =>
            \E c \in RequestsOn(p) : ShowsResponseOf(panels, p, c)

\* C14: when several live-preview requests are pending on the tracked panel,
\* each response is applied to the panel when it arrives, whichever request it
\* answers and whatever was applied before, so that once all are handled the
\* panel shows the content and the title of the response that arrived last.
C14_LastArrivalWins == []C14_Settled /\ [][C14_Step]_vars

\* two live-preview requests are pending on the tracked panel when the response
\* to the later one arrives: it is applied, and the panel shows it while the
\* earlier request is still pending
C14_Witness ==
    \E c, d \in Calls :
        /\ c < d
        /\ calls[c].op = "getPreview" /\ calls[d].op = "getPreview"
        /\ calls[c].panel = calls[d].panel
        /\ calls[c].pc = "request"
        /\ Rendered(d)
        /\ Usable(panels, calls[d].panel)
        /\ ShowsResponseOf(panels, calls[d].panel, d)

\* the response handled in this step is a body with neither error nor parse
HandlesSoftFailure(c) ==
    /\ HandlesResponse(c)
    /\ ~calls'[c].got.failed /\ ~calls'[c].got.hasError /\ ~calls'[c].got.hasParse

\* C15: when the response carries no parse payload (a decode soft failure),
\* nothing is thrown, the user is shown a warning message, and the surface is
\* not updated: its content and its title stay as they were.
C15_SoftFailureWarned ==
    [][\A c \in Calls :
          HandlesSoftFailure(c) =>
              /\ calls'[c].exit = "noParse"
              /\ \E i \in 1..Len(calls'[c].msgs) : calls'[c].msgs[i].kind = "warning"
              /\ panels' = panels]_vars

C16_Step ==
    /\ \A p \in Panels : panels[p].disposed => panels'[p] = panels[p]
    /\ \A c \in Calls :
          (/\ calls[c].op \in GetViewOps
           /\ HandlesResponse(c)
           /\ panels[calls[c].panel].disposed) => panels' = panels

\* C16: no content and no title is written to a panel once it is disposed; a
\* response that arrives for a request whose panel the user has closed changes
\* neither that panel nor any other, also not a panel created after the close.
C16_NoWriteAfterDispose == [][C16_Step]_vars

\* the live-preview panel of a call was closed while its request was pending and
\* a later call created and tracks a new panel; the response of the first call
\* has been handled and both panels still show what they showed before it
C16_Witness ==
    \E c, d \in Calls :
        /\ c # d
        /\ calls[c].op = "getPreview" /\ calls[c].pc = "done"
        /\ calls[c].exit = "rethrown"
        /\ panels[calls[c].panel].disposed
        /\ panels[calls[c].panel].html = LoadingDoc
        /\ calls[d].op = "getPreview" /\ calls[d].pc = "request"
        /\ calls[d].made > calls[c].panel
        /\ previewCurrentPlanel = calls[d].made
        /\ panels[calls[d].made].html = LoadingDoc

(***************************************************************************)
(* wmcore.ts: login, logout and writePage.  In this specification `bot` is  *)
(* the variable of wmcore.ts line 17: null, or the MWBot instance a login   *)
(* created, named by the invocation that created it.  An instance is        *)
(* logged in once the login() issued on it has succeeded.                   *)
(***************************************************************************)
\* wmcore.ts line 17: `let bot: MWBot | null = null`
NullBot == 0

\* number of login, logout and writePage invocations one behaviour contains
MaxWrites == 3

WriteCalls == 1..MaxWrites

WriteInit ==
    /\ panels = <<>>
    /\ previewCurrentPlanel = 0
    /\ bot = NullBot
    /\ calls = [c \in WriteCalls |-> IdleCall]

\* invocation c starts now: the earlier ones have started
Starts(c) == calls[c].pc = "idle" /\ \A d \in WriteCalls : d < c => calls[d].pc # "idle"

\* lines 20-42: login() up to the call of bot.login(), which it does not await
WmLogin(c) ==
    /\ Starts(c)
    /\ \E host \in HostResults, credentials \in BOOLEAN :
         LET call == [calls[c] EXCEPT !.op = "login"]
         IN  IF host = ""
             THEN /\ calls' = [calls EXCEPT ![c] = [call EXCEPT !.pc = "done", !.exit = "noHost"]]
                  /\ UNCHANGED bot
             ELSE IF ~credentials
             THEN /\ calls' = [calls EXCEPT ![c] =
                                  [call EXCEPT !.pc = "done", !.exit = "noCredentials",
                                               !.msgs = Append(@, Message("warning"))]]
                  /\ UNCHANGED bot
             ELSE /\ bot' = c
                  /\ calls' = [calls EXCEPT ![c] = [call EXCEPT !.pc = "login", !.host = host]]
    /\ UNCHANGED <<panels, previewCurrentPlanel>>

\* lines 40-47: the promise of bot.login() is settled
WmLoginSettled(c) ==
    /\ calls[c].op = "login"
    /\ calls[c].pc = "login"
    /\ \E ok \in BOOLEAN :
         calls' = [calls EXCEPT ![c] =
                      IF ok THEN [Finish(c, "loggedIn") EXCEPT !.msgs = Append(@, Message("information"))]
                      ELSE [Finish(c, "loginFailed") EXCEPT !.msgs = Append(@, Message("error"))]]
    /\ UNCHANGED <<panels, previewCurrentPlanel, bot>>

\* lines 50-53: logout()
WmLogout(c) ==
    /\ Starts(c)
    /\ bot' = NullBot
    /\ calls' = [calls EXCEPT ![c] =
                    [calls[c] EXCEPT !.op = "logout", !.pc = "done", !.exit = "loggedOut",
                                     !.msgs = Append(@, Message("information"))]]
    /\ UNCHANGED <<panels, previewCurrentPlanel>>

\* what activeTextEditor?.document.getText() can yield for writePage
WikiContents == { Absent, Some(<<>>), Some(<<"text">>) }

\* lines 58-70: writePage up to the await of the page name
WritePageStart(c) ==
    /\ Starts(c)
    /\ \E wikiContent \in WikiContents :
         LET call == [calls[c] EXCEPT !.op = "writePage"]
         IN  calls' = [calls EXCEPT ![c] =
                 IF ~wikiContent.present
                 THEN [call EXCEPT !.pc = "done", !.exit = "noEditor",
                                   !.msgs = Append(@, Message("warning"))]
                 ELSE IF bot = NullBot
                 THEN [call EXCEPT !.pc = "done", !.exit = "notLoggedIn",
                                   !.msgs = Append(@, Message("warning"))]
                 ELSE [call EXCEPT !.pc = "title", !.src = wikiContent.val]]
    /\ UNCHANGED <<panels, previewCurrentPlanel, bot>>

\* lines 70-79: from the page name to the await of the summary
WritePageAfterTitle(c) ==
    /\ calls[c].op = "writePage"
    /\ calls[c].pc = "title"
    /\ \E wikiTitle \in TitleInputs :
         calls' = [calls EXCEPT ![c] =
                      IF ~Truthy(wikiTitle) THEN Finish(c, "noTitle")
                      ELSE [calls[c] EXCEPT !.pc = "summary"]]
    /\ UNCHANGED <<panels, previewCurrentPlanel, bot>>

\* lines 79-88: from the summary to the await of bot.getEditToken(); the call
\* on a null bot throws
WritePageAfterSummary(c) ==
    /\ calls[c].op = "writePage"
    /\ calls[c].pc = "summary"
    /\ calls' = [calls EXCEPT ![c] =
                    IF bot = NullBot THEN Finish(c, "threw")
                    ELSE [calls[c] EXCEPT !.pc = "token"]]
    /\ UNCHANGED <<panels, previewCurrentPlanel, bot>>

\* lines 88-96: getEditToken() is settled, its failure is caught and shown, and
\* bot.edit() sends the edit; the call on a null bot throws
WritePageAfterToken(c) ==
    /\ calls[c].op = "writePage"
    /\ calls[c].pc = "token"
    /\ \E ok \in BOOLEAN :
         LET shown == [calls[c] EXCEPT
                          !.msgs = Append(@, Message(IF ok THEN "information" ELSE "error"))]
         IN  calls' = [calls EXCEPT ![c] =
                          IF bot = NullBot THEN [shown EXCEPT !.pc = "done", !.exit = "threw"]
                          ELSE [shown EXCEPT !.pc = "edit"]]
    /\ UNCHANGED <<panels, previewCurrentPlanel, bot>>

\* lines 96-107: the edit is settled
WritePageSettled(c) ==
    /\ calls[c].op = "writePage"
    /\ calls[c].pc = "edit"
    /\ \E outcome \in {"nochange", "edited", "rejected"} :
         calls' = [calls EXCEPT ![c] =
                      IF outcome = "rejected" THEN Finish(c, "threw")
                      ELSE [Finish(c, outcome) EXCEPT
                               !.msgs = Append(@, Message(IF outcome = "nochange"
                                                          THEN "warning" ELSE "information"))]]
    /\ UNCHANGED <<panels, previewCurrentPlanel, bot>>

WriteNext ==
    \/ \E c \in WriteCalls : WmLogin(c)
    \/ \E c \in WriteCalls : WmLoginSettled(c)
    \/ \E c \in WriteCalls : WmLogout(c)
    \/ \E c \in WriteCalls : WritePageStart(c)
    \/ \E c \in WriteCalls : WritePageAfterTitle(c)
    \/ \E c \in WriteCalls : WritePageAfterSummary(c)
    \/ \E c \in WriteCalls : WritePageAfterToken(c)
    \/ \E c \in WriteCalls : WritePageSettled(c)

WriteSpec == WriteInit /\ [][WriteNext]_vars

\* writePage invocation c sends its edit request in this step
SendsEdit(c) ==
    calls[c].op = "writePage" /\ calls[c].pc = "token" /\ calls'[c].pc = "edit"

\* an authenticated session exists: no logout has cleared bot since the login
\* that created it, and that login has completed successfully
Authenticated == bot # NullBot /\ calls[bot].exit = "loggedIn"

\* C17: writePage sends an edit request only while an authenticated session
\* exists: some login has completed successfully before and no logout happened
\* since; after a failed login or a logout no edit is sent.
C17_EditOnlyAuthenticated ==
    [][\A c \in WriteCalls : SendsEdit(c) => Authenticated]_vars

====
